---- MODULE Spec2Model ----
(***************************************************************************)
(* OptimizedCompilationInfo (src/src/codegen/optimized-compilation-info.h) *)
(* as a state machine: one descriptor, its flag bitset, its bailout        *)
(* reason, its PersistentHandles slot and the thread that holds it.        *)
(*                                                                         *)
(* DCHECKs are modelled as in a DEBUG build (the build in which lines      *)
(* 96-99 declare the validity predicates): a failing DCHECK aborts the     *)
(* process, after which no operation runs.                                 *)
(*                                                                         *)
(* The header only declares AbortOptimization, RetryOptimization,          *)
(* set_persistent_handles, ReopenHandlesInNewHandleScope, ConfigureFlags,  *)
(* AddInlinedFunction, the constructors and FlagGetIsValid /               *)
(* FlagSetIsValid; their bodies, and the hand-off protocol of the callers, *)
(* follow the written specification of the descriptor.                     *)
(*                                                                         *)
(* Each group of operations has its own specification over the same        *)
(* variables: Spec (flags, bailout, bundle, threads), SpecFlags (validity  *)
(* rules), SpecRegistry (all 23 setters), SpecOutputs (OSR record, code),  *)
(* SpecLedger (inlined functions), SpecIds (optimization ids),             *)
(* SpecProtocol (hand-off protocol) and SpecRoundTrip (success scenario).  *)
(***************************************************************************)
EXTENDS Naturals, Integers, Sequences, FiniteSets, TLC

(***************************************************************************)
(* Bounds.                                                                 *)
(***************************************************************************)
\* Number of distinct PersistentHandles containers in the environment.
NumBundles == 2
\* The environment calls the public setters of the flags whose Bit is below
\* this number; the other flags are raised by ConfigureFlags only.
NumDirectFlags == 3
\* Most flags raised at once when every setter may be called.
MaxRaisedFlags == 3
\* Number of bytecode offsets, of interpreter frames and of Code objects.
NumOffsets == 2
NumFrames == 1
NumCodes == 2
\* Number of functions that can be inlined, of source positions of a call
\* site, and the longest list of inlined functions.
NumFunctions == 2
NumPositions == 1
MaxInlinedFunctions == 2
\* Number of optimization ids the isolate hands out.
NumOptimizationIds == 3

(***************************************************************************)
(* Values.                                                                 *)
(***************************************************************************)
\* Code::Kind: the two kinds the header names and one standing for the rest.
CodeKinds == {"OPTIMIZED_FUNCTION", "WASM_FUNCTION", "STUB"}

\* BailoutReason: kNoReason (line 269), kUnknown, and one more reason.
BailoutReasons == {"kNoReason", "kUnknown", "kFunctionTooBig"}

\* The null std::unique_ptr<PersistentHandles>.
NullBundle == 0
Bundles == 1..NumBundles

Threads == {"main", "worker"}

\* BailoutId: BailoutId::None() and the bytecode offsets.
BailoutIdNone == -1
BailoutIds == {BailoutIdNone} \cup 0..(NumOffsets - 1)

\* JavaScriptFrame*: nullptr and the frames.
NullFrame == 0
Frames == 1..NumFrames

\* Handle<Code>: the null handle and the Code objects.
NullCode == 0
Codes == 1..NumCodes

\* Handle<SharedFunctionInfo> / Handle<BytecodeArray> of the inlined functions
\* and the source positions of the inlined call sites.
Functions == 1..NumFunctions
BytecodeArrays == 1..NumFunctions
Positions == 0..(NumPositions - 1)

\* static_cast<int>(size_t) on a 32-bit int.
kMaxInt == 2147483647
StaticCastInt(n) == IF n <= kMaxInt THEN n ELSE (n - kMaxInt) - kMaxInt - 2

\* static const int kNoOptimizationId = -1;
kNoOptimizationId == -1
OptimizationIds == 0..(NumOptimizationIds - 1)

\* FLAGS(V): Camel name |-> Bit.
FLAGS ==
  [ FunctionContextSpecializing |-> 0,
    Inlining |-> 1,
    DisableFutureOptimization |-> 2,
    Splitting |-> 3,
    SourcePositions |-> 4,
    BailoutOnUninitialized |-> 5,
    LoopPeeling |-> 6,
    UntrustedCodeMitigations |-> 7,
    SwitchJumpTable |-> 8,
    CalledWithCodeStartRegister |-> 9,
    PoisonRegisterArguments |-> 10,
    AllocationFolding |-> 11,
    AnalyzeEnvironmentLiveness |-> 12,
    TraceTurboJson |-> 13,
    TraceTurboGraph |-> 14,
    TraceTurboScheduled |-> 15,
    TraceTurboAllocation |-> 16,
    TraceHeapBroker |-> 17,
    WasmRuntimeExceptionSupport |-> 18,
    TurboControlFlowAwareAllocation |-> 19,
    TurboPreprocessRanges |-> 20,
    ConcurrentInlining |-> 21,
    NativeContextIndependent |-> 22 ]

FlagNames == DOMAIN FLAGS

\* The flags whose setters the environment calls.
DirectFlags == {Camel \in FlagNames : FLAGS[Camel] < NumDirectFlags}

(***************************************************************************)
(* Bitsets.  An unsigned value is held as the set of the positions of its  *)
(* one-bits, so that | is union, & is intersection and ^ is symmetric      *)
(* difference.                                                             *)
(***************************************************************************)
\* The width of unsigned.
kUnsignedBits == 32

BitPositions == 0..(kUnsignedBits - 1)

\* The bitset of the number n, from position i on.
RECURSIVE BitsFrom(_, _)
BitsFrom(n, i) ==
  IF n = 0 THEN {}
  ELSE (IF n % 2 = 1 THEN {i} ELSE {}) \cup BitsFrom(n \div 2, i + 1)

\* The bitset of the number n.
Bits(n) == BitsFrom(n, 0)

BitAnd(a, b) == a \cap b

BitOr(a, b) == a \cup b

BitXor(a, b) == (a \ b) \cup (b \ a)

\* The enumerators, computed once.
ShiftedMasks == [Camel \in FlagNames |-> Bits(2 ^ FLAGS[Camel])]

UnshiftedMasks == [Camel \in FlagNames |-> Bits(FLAGS[Camel])]

\* An enumerator that takes the bit number for the mask.
DefEnumNoShift(Camel) == UnshiftedMasks[Camel]

\* enum Flag: k##Camel = 1 << Bit.
DEF_ENUM(Camel) == ShiftedMasks[Camel]

kDisableFutureOptimization == DEF_ENUM("DisableFutureOptimization")

(***************************************************************************)
(* State.                                                                  *)
(***************************************************************************)
VARIABLES
  code_kind_,       \* const Code::Kind code_kind_
  flags_,           \* unsigned flags_
  bailout_reason_,  \* BailoutReason bailout_reason_
  ph_,              \* std::unique_ptr<PersistentHandles> ph_
  external,         \* the containers owned outside the descriptor
  thread,           \* the thread that holds the descriptor
  handle_scope,     \* the thread in whose scope the descriptor's handles are open
  dcheck_failed,    \* a DCHECK failed: the process aborted
  last,             \* the last operation, its argument and the value it returned
  bypass,           \* history: set_disable_future_optimization() was called
                    \* directly, or kNoReason was passed as a bailout reason
  invalid_flags,    \* the flags FlagGetIsValid / FlagSetIsValid reject for this job
  osr_offset_,      \* BailoutId osr_offset_
  osr_frame_,       \* JavaScriptFrame* osr_frame_
  code_,            \* Handle<Code> code_
  inlined_functions_, \* InlinedFunctionList inlined_functions_
  optimization_id_, \* const int optimization_id_
  other_ids,        \* the optimization ids of the other live optimizing jobs
                    \* of the isolate
  pc,               \* the step of the hand-off protocol the two threads are at
  reopens           \* history: ReopenHandlesInNewHandleScope calls since the
                    \* descriptor was handed to the worker

vars == <<code_kind_, flags_, bailout_reason_, ph_, external, thread,
          handle_scope, dcheck_failed, last, bypass, invalid_flags,
          osr_offset_, osr_frame_, code_, inlined_functions_,
          optimization_id_, other_ids, pc, reopens>>

\* The fields of the descriptor.
descriptor == <<code_kind_, flags_, bailout_reason_, ph_, handle_scope,
                osr_offset_, osr_frame_, code_, inlined_functions_>>

\* The state of the flag registry, the bailout state machine, the reference
\* keeper and the threads.
core == <<code_kind_, flags_, bailout_reason_, ph_, external, thread,
          handle_scope, bypass>>

\* What is fixed by the constructor: the validity rules and the const member
\* optimization_id_.
constructed == <<invalid_flags, optimization_id_>>

\* The position in the hand-off protocol.
protocol == <<pc, reopens>>

\* What a call on the descriptor made outside the hand-off protocol leaves
\* alone besides the members it does not write.
rest == <<constructed, other_ids, protocol>>

\* The steps of the hand-off protocol and of the round trip through it.
ProtocolSteps == {"start", "attached", "transferred", "compiling", "added_one",
                  "added_two", "finished", "returned", "done"}

\* The OSR record, the produced code and the list of inlined functions.
outputs == <<osr_offset_, osr_frame_, code_, inlined_functions_>>

(***************************************************************************)
(* Accessors.                                                              *)
(***************************************************************************)
code_kind == code_kind_

bailout_reason == bailout_reason_

IsOptimizing == code_kind = "OPTIMIZED_FUNCTION"

IsWasm == code_kind = "WASM_FUNCTION"

\* A third predicate that holds when either comparison does.
IsNotOptimizedOrNotWasm ==
  code_kind # "OPTIMIZED_FUNCTION" \/ code_kind # "WASM_FUNCTION"

IsNotOptimizedFunctionOrWasmFunction ==
  code_kind # "OPTIMIZED_FUNCTION" /\ code_kind # "WASM_FUNCTION"

GetFlag(flag) == BitAnd(flags_, flag) # {}

\* The validity predicates of lines 96-99; the specification gives the shape
\* of the rules but no rule for a named flag: the flags they reject for this
\* job are fixed at construction (invalid_flags).
FlagGetIsValid(flag) == flag \in {DEF_ENUM(c) : c \in FlagNames \ invalid_flags}

FlagSetIsValid(flag) == flag \in {DEF_ENUM(c) : c \in FlagNames \ invalid_flags}

\* bool is_osr() const { return !osr_offset_.IsNone(); }
is_osr == osr_offset_ # BailoutIdNone

osr_offset == osr_offset_

osr_frame == osr_frame_

code == code_

\* InlinedFunctionList& inlined_functions() { return inlined_functions_; }
inlined_functions == inlined_functions_

\* bool Lower() const
DEF_GETTER(Camel) == GetFlag(DEF_ENUM(Camel))

disable_future_optimization == DEF_GETTER("DisableFutureOptimization")

(***************************************************************************)
(* Flag setters.                                                           *)
(***************************************************************************)
\* Plausible slips of SetFlag: toggling the bit, overwriting the bitset.
SetFlagToggles(flag) == flags_' = BitXor(flags_, flag)

SetFlagOverwrites(flag) == flags_' = flag

SetFlagNoOp(flag) == flags_' = flags_

\* A SetFlag that also raises the bit above the flag's.
SetFlagSpills(flag) ==
  flags_' = BitOr(flags_, BitOr(flag, {b + 1 : b \in flag} \cap BitPositions))

\* void SetFlag(Flag flag) { flags_ |= flag; }
SetFlag(flag) == flags_' = BitOr(flags_, flag)

\* A generated setter without the validity assertion.
DefSetterUnchecked(Camel) ==
  SetFlag(DEF_ENUM(Camel)) /\ dcheck_failed' = FALSE

\* void set_##Lower(): the effect on flags_ and on the process.
DEF_SETTER(Camel) ==
  IF FlagSetIsValid(DEF_ENUM(Camel))
  THEN SetFlag(DEF_ENUM(Camel)) /\ dcheck_failed' = FALSE
  ELSE flags_' = flags_ /\ dcheck_failed' = TRUE

set_disable_future_optimization == DEF_SETTER("DisableFutureOptimization")

\* The process-wide configurations ConfigureFlags reads: the flags they enable.
Configs == { {}, {"Inlining", "LoopPeeling", "AllocationFolding"} }

RECURSIVE OrAll(_)
OrAll(S) ==
  IF S = {} THEN Bits(0)
  ELSE LET c == CHOOSE x \in S : TRUE
       IN BitOr(DEF_ENUM(c), OrAll(S \ {c}))

\* void ConfigureFlags(): seeds the bitset from the configuration.
ConfigureFlags(config) == OrAll(config)

(***************************************************************************)
(* Construction.                                                           *)
(***************************************************************************)
\* The members every constructor leaves at their default initializers.
InitOutputs ==
  /\ osr_offset_ = BailoutIdNone
  /\ osr_frame_ = NullFrame
  /\ code_ = NullCode
  /\ inlined_functions_ = << >>
  /\ pc = "start"
  /\ reopens = 0

\* The constructors: a job that optimizes a function takes an optimization id
\* that no live job of the isolate holds, any other job gets kNoOptimizationId.
InitOptimizationId(ids) ==
  /\ other_ids = {}
  /\ optimization_id_ \in IF code_kind_ = "OPTIMIZED_FUNCTION"
                          THEN ids ELSE {kNoOptimizationId}

InitCore ==
  /\ InitOutputs
  /\ code_kind_ \in CodeKinds
  /\ \E config \in Configs : flags_ = ConfigureFlags(config)
  /\ bailout_reason_ = "kNoReason"
  /\ ph_ = NullBundle
  /\ external = Bundles
  /\ thread = "main"
  /\ handle_scope = "main"
  /\ dcheck_failed = FALSE
  /\ last = [op |-> "OptimizedCompilationInfo", arg |-> 0, ret |-> 0]
  /\ bypass = FALSE

Init ==
  /\ InitCore
  /\ invalid_flags = {}
  /\ InitOptimizationId({0})

(***************************************************************************)
(* Operations.                                                             *)
(***************************************************************************)
\* A direct call of one of the public setters generated by DEF_SETTER.
CallSetter(Camel) ==
  /\ ~dcheck_failed
  /\ DEF_SETTER(Camel)
  /\ last' = [op |-> "set_flag", arg |-> Camel, ret |-> 0]
  /\ bypass' = (bypass \/ Camel = "DisableFutureOptimization")
  /\ UNCHANGED <<code_kind_, bailout_reason_, ph_, external, thread, handle_scope>>

\* void AbortOptimization(BailoutReason reason): records the reason and, for an
\* optimizing-function job, raises the disable-future-optimization flag.
AbortOptimization(reason) ==
  /\ ~dcheck_failed
  /\ bailout_reason_' = reason
  /\ IF IsOptimizing
     THEN set_disable_future_optimization
     ELSE UNCHANGED <<flags_, dcheck_failed>>
  /\ last' = [op |-> "AbortOptimization", arg |-> reason, ret |-> 0]
  /\ bypass' = (bypass \/ reason = "kNoReason")
  /\ UNCHANGED <<code_kind_, ph_, external, thread, handle_scope>>

\* A retry that puts the job back to running instead of recording the reason.
RetryResets(reason) ==
  /\ ~dcheck_failed
  /\ bailout_reason_' = "kNoReason"
  /\ last' = [op |-> "RetryOptimization", arg |-> reason, ret |-> 0]
  /\ bypass' = (bypass \/ reason = "kNoReason")
  /\ UNCHANGED <<code_kind_, flags_, ph_, external, thread, handle_scope,
                 dcheck_failed>>

\* A retry that disables future optimization as an abort does.
RetryDisables(reason) ==
  /\ ~dcheck_failed
  /\ bailout_reason_' = reason
  /\ set_disable_future_optimization
  /\ last' = [op |-> "RetryOptimization", arg |-> reason, ret |-> 0]
  /\ bypass' = (bypass \/ reason = "kNoReason")
  /\ UNCHANGED <<code_kind_, ph_, external, thread, handle_scope>>

\* void RetryOptimization(BailoutReason reason): records the reason only.
RetryOptimization(reason) ==
  /\ ~dcheck_failed
  /\ bailout_reason_' = reason
  /\ last' = [op |-> "RetryOptimization", arg |-> reason, ret |-> 0]
  /\ bypass' = (bypass \/ reason = "kNoReason")
  /\ UNCHANGED <<code_kind_, flags_, ph_, external, thread, handle_scope,
                 dcheck_failed>>

\* An attach that replaces the installed container instead of failing.
AttachReplaces(persistent_handles) ==
  /\ ~dcheck_failed
  /\ persistent_handles \in external
  /\ ph_' = persistent_handles
  /\ external' = external \ {persistent_handles}
  /\ last' = [op |-> "set_persistent_handles", arg |-> persistent_handles, ret |-> 0]
  /\ UNCHANGED <<code_kind_, flags_, bailout_reason_, thread, handle_scope,
                 dcheck_failed, bypass>>

\* void set_persistent_handles(std::unique_ptr<PersistentHandles>): the caller
\* moves a container it owns into the descriptor; a programmer error when one
\* is already installed.
set_persistent_handles(persistent_handles) ==
  /\ ~dcheck_failed
  /\ persistent_handles \in external
  /\ IF ph_ = NullBundle
     THEN /\ ph_' = persistent_handles
          /\ external' = external \ {persistent_handles}
          /\ dcheck_failed' = FALSE
     ELSE /\ dcheck_failed' = TRUE
          /\ UNCHANGED <<ph_, external>>
  /\ last' = [op |-> "set_persistent_handles", arg |-> persistent_handles, ret |-> 0]
  /\ UNCHANGED <<code_kind_, flags_, bailout_reason_, thread, handle_scope, bypass>>

\* A detach that moves out of persistent_handles_ (line 267), the other
\* unique_ptr field, which nothing modelled here fills.
DetachMovesOtherField ==
  /\ ~dcheck_failed
  /\ last' = [op |-> "DetachPersistentHandles", arg |-> 0, ret |-> NullBundle]
  /\ UNCHANGED <<code_kind_, flags_, bailout_reason_, ph_, external, thread,
                 handle_scope, dcheck_failed, bypass>>

\* A detach that hands out the container and keeps it as well.
DetachCopies ==
  /\ ~dcheck_failed
  /\ external' = external \cup ({ph_} \ {NullBundle})
  /\ last' = [op |-> "DetachPersistentHandles", arg |-> 0, ret |-> ph_]
  /\ UNCHANGED <<code_kind_, flags_, bailout_reason_, ph_, thread,
                 handle_scope, dcheck_failed, bypass>>

\* std::unique_ptr<PersistentHandles> DetachPersistentHandles()
\*   { return std::move(ph_); }
DetachPersistentHandles ==
  /\ ~dcheck_failed
  /\ ph_' = NullBundle
  /\ external' = external \cup ({ph_} \ {NullBundle})
  /\ last' = [op |-> "DetachPersistentHandles", arg |-> 0, ret |-> ph_]
  /\ UNCHANGED <<code_kind_, flags_, bailout_reason_, thread, handle_scope,
                 dcheck_failed, bypass>>

\* void ReopenHandlesInNewHandleScope(Isolate*): re-opens the descriptor's
\* handles in a scope of the calling thread.
ReopenHandlesInNewHandleScope ==
  /\ ~dcheck_failed
  /\ handle_scope' = thread
  /\ last' = [op |-> "ReopenHandlesInNewHandleScope", arg |-> 0, ret |-> 0]
  /\ UNCHANGED <<code_kind_, flags_, bailout_reason_, ph_, external, thread,
                 dcheck_failed, bypass>>

\* The scheduler hands the descriptor to the other thread.
HandOff ==
  /\ ~dcheck_failed
  /\ thread' = IF thread = "main" THEN "worker" ELSE "main"
  /\ last' = [op |-> "HandOff", arg |-> 0, ret |-> 0]
  /\ UNCHANGED <<code_kind_, flags_, bailout_reason_, ph_, external,
                 handle_scope, dcheck_failed, bypass>>

\* A direct call of one of the public getters generated by DEF_GETTER:
\* DCHECK(FlagGetIsValid(k##Camel)); return GetFlag(k##Camel);
CallGetter(Camel) ==
  /\ ~dcheck_failed
  /\ dcheck_failed' = ~FlagGetIsValid(DEF_ENUM(Camel))
  /\ last' = [op |-> "get_flag", arg |-> Camel,
              ret |-> IF FlagGetIsValid(DEF_ENUM(Camel)) /\ DEF_GETTER(Camel)
                      THEN 1 ELSE 0]
  /\ UNCHANGED <<core, outputs>>

\* An OSR marking that does not check the compilation mode.
SetOptimizingForOsrUnchecked(offset, frame) ==
  /\ ~dcheck_failed
  /\ osr_offset_' = offset
  /\ osr_frame_' = frame
  /\ last' = [op |-> "SetOptimizingForOsr", arg |-> offset, ret |-> 0]
  /\ UNCHANGED <<core, code_, inlined_functions_, dcheck_failed>>

\* void SetOptimizingForOsr(BailoutId osr_offset, JavaScriptFrame* osr_frame)
SetOptimizingForOsr(offset, frame) ==
  /\ ~dcheck_failed
  /\ IF IsOptimizing
     THEN /\ osr_offset_' = offset
          /\ osr_frame_' = frame
          /\ dcheck_failed' = FALSE
     ELSE /\ dcheck_failed' = TRUE
          /\ UNCHANGED <<osr_offset_, osr_frame_>>
  /\ last' = [op |-> "SetOptimizingForOsr", arg |-> offset, ret |-> 0]
  /\ UNCHANGED <<core, code_, inlined_functions_>>

\* A SetCode that keeps the code it already holds.
SetCodeKeepsOld(c) ==
  /\ ~dcheck_failed
  /\ code_' = code_
  /\ last' = [op |-> "SetCode", arg |-> c, ret |-> 0]
  /\ UNCHANGED <<core, osr_offset_, osr_frame_, inlined_functions_, dcheck_failed>>

\* void SetCode(Handle<Code> code) { code_ = code; }
SetCode(c) ==
  /\ ~dcheck_failed
  /\ code_' = c
  /\ last' = [op |-> "SetCode", arg |-> c, ret |-> 0]
  /\ UNCHANGED <<core, osr_offset_, osr_frame_, inlined_functions_, dcheck_failed>>

Next ==
  \/ \E Camel \in DirectFlags : CallSetter(Camel) /\ UNCHANGED <<outputs, rest>>
  \/ \E reason \in BailoutReasons :
       AbortOptimization(reason) /\ UNCHANGED <<outputs, rest>>
  \/ \E reason \in BailoutReasons :
       RetryOptimization(reason) /\ UNCHANGED <<outputs, rest>>
  \/ \E b \in Bundles : set_persistent_handles(b) /\ UNCHANGED <<outputs, rest>>
  \/ DetachPersistentHandles /\ UNCHANGED <<outputs, rest>>
  \/ ReopenHandlesInNewHandleScope /\ UNCHANGED <<outputs, rest>>
  \/ HandOff /\ UNCHANGED <<outputs, rest>>

Spec == Init /\ [][Next]_vars

\* The flag registry with the setters of all flags.
NextRegistry ==
  \E Camel \in FlagNames :
    /\ Cardinality(BitOr(flags_, DEF_ENUM(Camel))) <= MaxRaisedFlags
    /\ CallSetter(Camel)
    /\ UNCHANGED <<outputs, rest>>

SpecRegistry == Init /\ [][NextRegistry]_vars

\* The operations that record the OSR entry and the produced code.
NextOutputs ==
  \/ \E offset \in BailoutIds, frame \in Frames \cup {NullFrame} :
       SetOptimizingForOsr(offset, frame) /\ UNCHANGED rest
  \/ \E c \in Codes : SetCode(c) /\ UNCHANGED rest

SpecOutputs == Init /\ [][NextOutputs]_vars

\* The flag registry of a job whose validity predicates reject some flags.
InitFlags ==
  /\ InitCore
  /\ invalid_flags \in SUBSET DirectFlags
  /\ InitOptimizationId({0})

NextFlags ==
  \/ \E Camel \in DirectFlags : CallSetter(Camel) /\ UNCHANGED <<outputs, rest>>
  \/ \E Camel \in DirectFlags : CallGetter(Camel) /\ UNCHANGED rest

SpecFlags == InitFlags /\ [][NextFlags]_vars

(***************************************************************************)
(* Type correctness.                                                       *)
(***************************************************************************)
TypeOK ==
  /\ code_kind_ \in CodeKinds
  /\ flags_ \subseteq BitPositions
  /\ bailout_reason_ \in BailoutReasons
  /\ ph_ \in Bundles \cup {NullBundle}
  /\ external \subseteq Bundles
  /\ thread \in Threads
  /\ handle_scope \in Threads
  /\ dcheck_failed \in BOOLEAN
  /\ bypass \in BOOLEAN
  /\ invalid_flags \subseteq FlagNames
  /\ osr_offset_ \in BailoutIds
  /\ osr_frame_ \in Frames \cup {NullFrame}
  /\ code_ \in Codes \cup {NullCode}
  /\ optimization_id_ \in OptimizationIds \cup {kNoOptimizationId}
  /\ other_ids \subseteq OptimizationIds
  /\ pc \in ProtocolSteps
  /\ reopens \in 0..1
  /\ Len(inlined_functions_) <= MaxInlinedFunctions
  /\ \A i \in 1..Len(inlined_functions_) :
       /\ inlined_functions_[i].shared_info \in Functions
       /\ inlined_functions_[i].bytecode_array \in BytecodeArrays
       /\ inlined_functions_[i].position.position \in Positions
       /\ inlined_functions_[i].position.inlined_function_id \in Int

C2_DetachWithoutBundleRejected ==
  (last.op = "DetachPersistentHandles" /\ last.ret = NullBundle) => dcheck_failed

\* C3: set_persistent_handles on a descriptor that already holds a container
\* fails, and the installed container stays where it is.
C3_DoubleAttachFails ==
  [][(ph_ # NullBundle /\ last'.op = "set_persistent_handles")
       => (dcheck_failed' /\ ph_' = ph_ /\ external' = external)]_vars

\* A second, different container was offered to a descriptor holding one.
C3_Witness ==
  /\ last.op = "set_persistent_handles"
  /\ dcheck_failed
  /\ ph_ \in Bundles
  /\ last.arg \in Bundles \ {ph_}

\* C4: every container has exactly one owner: the descriptor or an external
\* holder, never both and never neither.
C4_SingleOwner ==
  \A b \in Bundles : (ph_ = b) # (b \in external)

\* A container went through attach, hand-off, reopen and a detach on the
\* worker thread.
C4_Witness ==
  /\ last.op = "DetachPersistentHandles"
  /\ last.ret \in Bundles
  /\ thread = "worker"
  /\ handle_scope = "worker"
  /\ external = Bundles

(***************************************************************************)
(* Bailout / retry state machine.                                          *)
(***************************************************************************)
\* C5: after AbortOptimization(reason) returns, bailout_reason() is that
\* reason; on an OPTIMIZED_FUNCTION job the disable-future-optimization flag
\* is set, and on any other job the call leaves the flag as it was.
C5_AbortRecordsAndDisables ==
  [][\A reason \in BailoutReasons :
       ( /\ last'.op = "AbortOptimization"
         /\ last'.arg = reason
         /\ ~dcheck_failed' )
       => /\ bailout_reason' = reason
          /\ IsOptimizing => disable_future_optimization'
          /\ ~IsOptimizing =>
               (disable_future_optimization' = disable_future_optimization)]_vars

\* An optimizing job that already carried kUnknown was aborted with another reason.
C5_Witness ==
  /\ last.op = "AbortOptimization"
  /\ last.arg = "kFunctionTooBig"
  /\ IsOptimizing
  /\ disable_future_optimization
  /\ bailout_reason = "kFunctionTooBig"

\* C6: after RetryOptimization(reason) returns, bailout_reason() is that reason
\* and the disable-future-optimization flag has the value it had before.
C6_RetryRecordsOnly ==
  [][\A reason \in BailoutReasons :
       (last'.op = "RetryOptimization" /\ last'.arg = reason)
       => /\ bailout_reason' = reason
          /\ disable_future_optimization' = disable_future_optimization
          /\ ~dcheck_failed']_vars

\* A retry on a job whose flag an earlier abort had raised.
C6_Witness ==
  /\ last.op = "RetryOptimization"
  /\ last.arg = "kUnknown"
  /\ bailout_reason = "kUnknown"
  /\ disable_future_optimization
  /\ ~bypass

\* C7: on an OPTIMIZED_FUNCTION job a second AbortOptimization with the same
\* reason changes nothing, and a RetryOptimization after an abort leaves the
\* disable-future-optimization flag set.
C7_AbortIdempotent ==
  [][ /\ \A reason \in BailoutReasons :
           ( /\ IsOptimizing
             /\ last.op = "AbortOptimization"
             /\ last.arg = reason
             /\ last'.op = "AbortOptimization"
             /\ last'.arg = reason )
           => (descriptor' = descriptor /\ vars' = vars)
      /\ ( /\ IsOptimizing
           /\ last.op = "AbortOptimization"
           /\ last'.op = "RetryOptimization" )
         => disable_future_optimization' ]_vars

\* The state after AbortOptimization(kUnknown) on an optimizing job, once or twice.
C7_Witness ==
  /\ last.op = "AbortOptimization"
  /\ last.arg = "kUnknown"
  /\ IsOptimizing
  /\ disable_future_optimization
  /\ bailout_reason = "kUnknown"
  /\ ~bypass

C9_FlagsMonotonic ==
  [][\A Camel \in FlagNames : DEF_GETTER(Camel) => DEF_GETTER(Camel)']_vars

\* Flags raised by the configuration and by an abort survived a later setter call.
C9_Witness ==
  /\ DEF_GETTER("Inlining")
  /\ disable_future_optimization
  /\ last.op = "set_flag"
  /\ last.arg = "FunctionContextSpecializing"
  /\ DEF_GETTER("FunctionContextSpecializing")
  /\ DEF_GETTER("LoopPeeling")

OptimizationIdUnchecked ==
  /\ ~dcheck_failed
  /\ last' = [op |-> "optimization_id", arg |-> 0, ret |-> optimization_id_]
  /\ UNCHANGED <<core, outputs, other_ids, dcheck_failed>>

(***************************************************************************)
(* The list of inlined functions.                                          *)
(***************************************************************************)
\* InliningPosition::inlined_function_id of a holder on which
\* RegisterInlinedFunctionId has not run.
kNotInlinedIndex == -1

\* InlinedFunctionHolder(inlined_shared_info, inlined_bytecode, pos)
InlinedFunctionHolder(inlined_shared_info, inlined_bytecode, pos) ==
  [shared_info |-> inlined_shared_info,
   bytecode_array |-> inlined_bytecode,
   position |-> [position |-> pos, inlined_function_id |-> kNotInlinedIndex]]

\* A registration that writes the source position instead of the id.
RegisterWritesPosition(holder, inlined_function_id) ==
  [holder EXCEPT !.position.position = StaticCastInt(inlined_function_id)]

\* void RegisterInlinedFunctionId(size_t inlined_function_id)
RegisterInlinedFunctionId(holder, inlined_function_id) ==
  [holder EXCEPT
     !.position.inlined_function_id = StaticCastInt(inlined_function_id)]

\* An append that numbers the holders from one.
AddInlinedFunctionOneBased(inlined_function, inlined_bytecode, pos) ==
  LET id == Len(inlined_functions_) + 1
  IN  /\ ~dcheck_failed
      /\ Len(inlined_functions_) < MaxInlinedFunctions
      /\ inlined_functions_' =
           Append(inlined_functions_,
                  RegisterInlinedFunctionId(
                    InlinedFunctionHolder(inlined_function, inlined_bytecode,
                                          pos), id))
      /\ last' = [op |-> "AddInlinedFunction", arg |-> inlined_function,
                  ret |-> id]
      /\ UNCHANGED <<core, osr_offset_, osr_frame_, code_, dcheck_failed>>

\* int AddInlinedFunction(Handle<SharedFunctionInfo> inlined_function,
\*                        Handle<BytecodeArray> inlined_bytecode,
\*                        SourcePosition pos)
AddInlinedFunction(inlined_function, inlined_bytecode, pos) ==
  LET id == Len(inlined_functions_)
  IN  /\ ~dcheck_failed
      /\ Len(inlined_functions_) < MaxInlinedFunctions
      /\ inlined_functions_' =
           Append(inlined_functions_,
                  RegisterInlinedFunctionId(
                    InlinedFunctionHolder(inlined_function, inlined_bytecode,
                                          pos), id))
      /\ last' = [op |-> "AddInlinedFunction", arg |-> inlined_function,
                  ret |-> StaticCastInt(id)]
      /\ UNCHANGED <<core, osr_offset_, osr_frame_, code_, dcheck_failed>>

\* A caller registers an id on a holder of the list:
\* inlined_functions()[index].RegisterInlinedFunctionId(id)
CallRegisterInlinedFunctionId(index, id) ==
  /\ ~dcheck_failed
  /\ index < Len(inlined_functions_)
  /\ inlined_functions_' =
       [inlined_functions_ EXCEPT
          ![index + 1] = RegisterInlinedFunctionId(@, id)]
  /\ last' = [op |-> "RegisterInlinedFunctionId", arg |-> index, ret |-> 0]
  /\ UNCHANGED <<core, osr_offset_, osr_frame_, code_, dcheck_failed>>

NextLedger ==
  \/ \E f \in Functions, pos \in Positions :
       AddInlinedFunction(f, f, pos) /\ UNCHANGED rest
  \/ \E index \in 0..(MaxInlinedFunctions - 1),
         id \in 0..(MaxInlinedFunctions - 1) :
       CallRegisterInlinedFunctionId(index, id) /\ UNCHANGED rest
  \/ \E c \in Codes : SetCode(c) /\ UNCHANGED rest

SpecLedger == Init /\ [][NextLedger]_vars

(***************************************************************************)
(* The hand-off protocol.                                                  *)
(***************************************************************************)
\* The running thread dereferences a handle the descriptor returned
\* (shared_info(), bytecode_array(), closure(), code()).  The handle is valid
\* when the handles were last opened on the running thread; the use of any
\* other handle is undefined: it may crash or go unnoticed.
Dereference ==
  /\ ~dcheck_failed
  /\ dcheck_failed' \in IF handle_scope = thread THEN {FALSE} ELSE BOOLEAN
  /\ last' = [op |-> "Dereference", arg |-> 0, ret |-> 0]
  /\ UNCHANGED <<core, outputs>>

\* Step 1: the requesting thread attaches the bundle it built.
RequesterAttaches(b) ==
  /\ pc = "start"
  /\ set_persistent_handles(b)
  /\ pc' = "attached"
  /\ UNCHANGED <<outputs, reopens, constructed, other_ids>>

\* Step 2: the descriptor is transferred to the background worker.
TransferToWorker ==
  /\ pc = "attached"
  /\ HandOff
  /\ pc' = "transferred"
  /\ reopens' = 0
  /\ UNCHANGED <<outputs, constructed, other_ids>>

\* A worker that starts to compile without reopening the handles.
WorkerSkipsReopen ==
  /\ pc = "transferred"
  /\ ~dcheck_failed
  /\ pc' = "compiling"
  /\ last' = [op |-> "ReopenHandlesInNewHandleScope", arg |-> 0, ret |-> 0]
  /\ UNCHANGED <<core, outputs, dcheck_failed, reopens, constructed, other_ids>>

\* Step 3: the worker reopens the handles.
WorkerReopens ==
  /\ pc = "transferred"
  /\ ReopenHandlesInNewHandleScope
  /\ pc' = "compiling"
  /\ reopens' = reopens + 1
  /\ UNCHANGED <<outputs, constructed, other_ids>>

\* Step 4: the worker compiles: it reads the handles, ...
WorkerDereferences ==
  /\ pc = "compiling"
  /\ Dereference
  /\ UNCHANGED rest

\* ... appends inlined functions ...
WorkerAddsInlinedFunction(f, pos) ==
  /\ pc = "compiling"
  /\ AddInlinedFunction(f, f, pos)
  /\ UNCHANGED rest

\* ... and sets flags.
WorkerSetsFlag(Camel) ==
  /\ pc = "compiling"
  /\ CallSetter(Camel)
  /\ UNCHANGED <<outputs, rest>>

\* Step 4 ends with the produced code ...
WorkerSetsCode(c) ==
  /\ pc = "compiling"
  /\ SetCode(c)
  /\ pc' = "finished"
  /\ UNCHANGED <<reopens, constructed, other_ids>>

\* ... or with a recorded bailout reason.
WorkerAborts(reason) ==
  /\ pc = "compiling"
  /\ AbortOptimization(reason)
  /\ pc' = "finished"
  /\ UNCHANGED <<outputs, reopens, constructed, other_ids>>

\* Step 5: the descriptor is transferred back to the requesting thread ...
TransferBack ==
  /\ pc = "finished"
  /\ HandOff
  /\ pc' = "returned"
  /\ UNCHANGED <<outputs, reopens, constructed, other_ids>>

\* ... which may detach the bundle.
RequesterDetaches ==
  /\ pc = "returned"
  /\ DetachPersistentHandles
  /\ pc' = "done"
  /\ UNCHANGED <<outputs, reopens, constructed, other_ids>>

NextProtocol ==
  \/ \E b \in Bundles : RequesterAttaches(b)
  \/ TransferToWorker
  \/ WorkerReopens
  \/ WorkerDereferences
  \/ \E f \in Functions, pos \in Positions : WorkerAddsInlinedFunction(f, pos)
  \/ \E Camel \in DirectFlags : WorkerSetsFlag(Camel)
  \/ \E c \in Codes : WorkerSetsCode(c)
  \/ \E reason \in BailoutReasons : WorkerAborts(reason)
  \/ TransferBack
  \/ RequesterDetaches

SpecProtocol == Init /\ [][NextProtocol]_vars

\* The success round trip: an optimizing job with derived flags goes through
\* steps 1 to 3, appends two inlined functions and sets the code.
InitRoundTrip ==
  /\ InitCore
  /\ code_kind_ = "OPTIMIZED_FUNCTION"
  /\ invalid_flags = {}
  /\ InitOptimizationId(OptimizationIds)

RoundTripAddsFirst(f, pos) ==
  /\ pc = "compiling"
  /\ AddInlinedFunction(f, f, pos)
  /\ pc' = "added_one"
  /\ UNCHANGED <<reopens, constructed, other_ids>>

RoundTripAddsSecond(f, pos) ==
  /\ pc = "added_one"
  /\ AddInlinedFunction(f, f, pos)
  /\ pc' = "added_two"
  /\ UNCHANGED <<reopens, constructed, other_ids>>

RoundTripSetsCode(c) ==
  /\ pc = "added_two"
  /\ SetCode(c)
  /\ pc' = "finished"
  /\ UNCHANGED <<reopens, constructed, other_ids>>

NextRoundTrip ==
  \/ \E b \in Bundles : RequesterAttaches(b)
  \/ TransferToWorker
  \/ WorkerReopens
  \/ \E f \in Functions, pos \in Positions : RoundTripAddsFirst(f, pos)
  \/ \E f \in Functions, pos \in Positions : RoundTripAddsSecond(f, pos)
  \/ \E c \in Codes : RoundTripSetsCode(c)

SpecRoundTrip == InitRoundTrip /\ [][NextRoundTrip]_vars

\* int optimization_id() const
optimization_id ==
  /\ ~dcheck_failed
  /\ dcheck_failed' = ~IsOptimizing
  /\ last' = [op |-> "optimization_id", arg |-> 0, ret |-> optimization_id_]
  /\ UNCHANGED <<core, outputs, other_ids>>

\* Another job that optimizes a function is constructed on the isolate.
ConstructOtherJob(id) ==
  /\ ~dcheck_failed
  /\ id \notin other_ids \cup {optimization_id_}
  /\ other_ids' = other_ids \cup {id}
  /\ UNCHANGED <<core, outputs, dcheck_failed, last>>

\* Another job of the isolate is destroyed.
DestroyOtherJob(id) ==
  /\ ~dcheck_failed
  /\ id \in other_ids
  /\ other_ids' = other_ids \ {id}
  /\ UNCHANGED <<core, outputs, dcheck_failed, last>>

InitIds ==
  /\ InitCore
  /\ invalid_flags = {}
  /\ InitOptimizationId(OptimizationIds)

NextIds ==
  \/ optimization_id /\ UNCHANGED <<constructed, protocol>>
  \/ \E id \in OptimizationIds :
       ConstructOtherJob(id) /\ UNCHANGED <<constructed, protocol>>
  \/ \E id \in OptimizationIds :
       DestroyOtherJob(id) /\ UNCHANGED <<constructed, protocol>>

SpecIds == InitIds /\ [][NextIds]_vars

\* C12: optimization_id() returns kNoOptimizationId (-1) on every descriptor
\* whose code kind is not OPTIMIZED_FUNCTION and a non-negative value on every
\* optimizing descriptor, and no other live optimizing job of the isolate has
\* the same id.
C12_OptimizationIdPerMode ==
  /\ [][last'.op = "optimization_id"
          => /\ ~dcheck_failed'
             /\ IF IsOptimizing THEN last'.ret >= 0
                                ELSE last'.ret = kNoOptimizationId]_vars
  /\ [](IsOptimizing => optimization_id_ \notin other_ids)

\* C12 as amended: the stored optimization id is kNoOptimizationId (-1) on
\* every descriptor that is not optimizing and is non-negative and held by no
\* other live job on every optimizing descriptor; optimization_id() returns it
\* on an optimizing descriptor and is rejected on any other descriptor.
C12_OptimizationIdOnlyWhenOptimizing ==
  /\ [][last'.op = "optimization_id"
          => IF IsOptimizing
             THEN ~dcheck_failed' /\ last'.ret = optimization_id_
                                  /\ last'.ret >= 0
             ELSE dcheck_failed']_vars
  /\ [](~IsOptimizing => optimization_id_ = kNoOptimizationId)
  /\ [](IsOptimizing => optimization_id_ >= 0 /\ optimization_id_ \notin other_ids)

\* optimization_id() was rejected on a descriptor that is not optimizing while
\* optimizing jobs of the isolate are alive.
C12_Witness ==
  /\ dcheck_failed
  /\ last.op = "optimization_id"
  /\ ~IsOptimizing
  /\ other_ids # {}

\* C11: a get or a set of a flag that the validity predicates reject for the
\* job's configuration is rejected: the assertion fails, no value is returned
\* and the flag word keeps its value.
C11_InvalidFlagRejected ==
  [][(last'.op \in {"set_flag", "get_flag"} /\ last'.arg \in invalid_flags)
       => (dcheck_failed' /\ flags_' = flags_ /\ last'.ret = 0)]_vars

\* The setter of a rejected flag that is still lowered was called.
C11_Witness ==
  /\ dcheck_failed
  /\ last.op = "set_flag"
  /\ last.arg \in invalid_flags
  /\ ~GetFlag(DEF_ENUM(last.arg))

\* C13: is_osr() holds exactly when osr_offset_ is not None, is_osr() implies
\* IsOptimizing(), and SetOptimizingForOsr on a descriptor that is not
\* optimizing is rejected and leaves osr_offset_ and osr_frame_ unchanged.
C13_OsrOnlyWhenOptimizing ==
  /\ [](is_osr <=> osr_offset # BailoutIdNone)
  /\ [](is_osr => IsOptimizing)
  /\ [][(~IsOptimizing /\ last'.op = "SetOptimizingForOsr")
          => (dcheck_failed' /\ osr_offset_' = osr_offset_
                             /\ osr_frame_' = osr_frame_)]_vars

\* SetOptimizingForOsr with a real offset was rejected on a descriptor that
\* is not optimizing.
C13_Witness ==
  /\ dcheck_failed
  /\ last.op = "SetOptimizingForOsr"
  /\ last.arg # BailoutIdNone
  /\ ~IsOptimizing
  /\ ~is_osr

\* C15: a second SetCode on a descriptor that already holds code is rejected
\* and does not replace the stored code.
C15_SecondSetCodeRejected ==
  [][(code # NullCode /\ last'.op = "SetCode")
       => (dcheck_failed' /\ code_' = code_)]_vars

\* C14: the k-th AddInlinedFunction on a descriptor returns k, the size of the
\* list just before the append; the appended holder sits at index k and its
\* position carries inlined_function_id k; no other operation changes the
\* size, so the returned ids are 0, 1, 2, ... without a gap.
C14_AddReturnsSizeBefore ==
  [][IF last'.op = "AddInlinedFunction"
     THEN /\ last'.ret = Len(inlined_functions_)
          /\ Len(inlined_functions_') = Len(inlined_functions_) + 1
          /\ SubSeq(inlined_functions_', 1, Len(inlined_functions_))
               = inlined_functions_
          /\ inlined_functions_'[last'.ret + 1].shared_info = last'.arg
          /\ inlined_functions_'[last'.ret + 1].position.inlined_function_id
               = last'.ret
     ELSE Len(inlined_functions_') = Len(inlined_functions_)]_vars

\* The second AddInlinedFunction returned 1 and the holders carry 0 and 1.
C14_Witness ==
  /\ last.op = "AddInlinedFunction"
  /\ last.ret = 1
  /\ Len(inlined_functions) = 2
  /\ inlined_functions[1].position.inlined_function_id = 0
  /\ inlined_functions[2].position.inlined_function_id = 1

\* C18: the list of inlined functions is append-only: in every step the
\* previous list is a prefix of the new one (no holder removed, reordered or
\* given another id), and the holder at index i has inlined_function_id i.
C18_LedgerAppendOnly ==
  /\ [][/\ Len(inlined_functions_') >= Len(inlined_functions_)
         /\ SubSeq(inlined_functions_', 1, Len(inlined_functions_))
              = inlined_functions_]_vars
  /\ [](\A i \in 1..Len(inlined_functions_) :
          inlined_functions_[i].position.inlined_function_id = i - 1)

\* C18 as amended: no step removes or reorders a holder or changes its
\* function, bytecode or source position; a holder's id changes only in a
\* direct RegisterInlinedFunctionId call on that holder; a holder appended at
\* index i starts with inlined_function_id i.
C18_LedgerAppendOnlyUpToRegisteredIds ==
  /\ [][/\ Len(inlined_functions_') >= Len(inlined_functions_)
         /\ \A i \in 1..Len(inlined_functions_) :
              \/ inlined_functions_'[i] = inlined_functions_[i]
              \/ /\ last'.op = "RegisterInlinedFunctionId"
                 /\ last'.arg = i - 1
                 /\ inlined_functions_'[i].shared_info
                      = inlined_functions_[i].shared_info
                 /\ inlined_functions_'[i].bytecode_array
                      = inlined_functions_[i].bytecode_array
                 /\ inlined_functions_'[i].position.position
                      = inlined_functions_[i].position.position]_vars
  /\ [][\A i \in (Len(inlined_functions_) + 1)..Len(inlined_functions_') :
          inlined_functions_'[i].position.inlined_function_id = i - 1]_vars

\* A direct RegisterInlinedFunctionId call gave holder 0 of a list of two
\* holders the id 1.
C18_Witness ==
  /\ last.op = "RegisterInlinedFunctionId"
  /\ last.arg = 0
  /\ Len(inlined_functions) = 2
  /\ inlined_functions[1].position.inlined_function_id = 1

\* C19: setting one flag changes only that flag: the 23 flags have masks of
\* one bit each on the pairwise distinct bits 0..22, so a set of F leaves
\* every getter of a flag G # F unchanged, and it leaves the code kind, the
\* bailout reason, the OSR record, the list of inlined functions, the code
\* and the bundle unchanged.
C19_SetterChangesOnlyItsFlag ==
  /\ [](/\ Cardinality(FlagNames) = 23
        /\ {FLAGS[F] : F \in FlagNames} = 0..22
        /\ \A F \in FlagNames : DEF_ENUM(F) = {FLAGS[F]}
        /\ \A F, G \in FlagNames :
             F # G => BitAnd(DEF_ENUM(F), DEF_ENUM(G)) = {})
  /\ [][last'.op = "set_flag"
          => /\ \A G \in FlagNames :
                  IF G = last'.arg
                  THEN ~dcheck_failed' => DEF_GETTER(G)'
                  ELSE DEF_GETTER(G)' = DEF_GETTER(G)
             /\ <<code_kind_, bailout_reason_, osr_offset_, osr_frame_,
                   inlined_functions_, code_, ph_>>'
                 = <<code_kind_, bailout_reason_, osr_offset_, osr_frame_,
                     inlined_functions_, code_, ph_>>]_vars

\* The setter of the flag on the highest bit raised it while other flags
\* were raised and others lowered.
C19_Witness ==
  /\ last.op = "set_flag"
  /\ last.arg = "NativeContextIndependent"
  /\ DEF_GETTER("NativeContextIndependent")
  /\ DEF_GETTER("Splitting")
  /\ ~DEF_GETTER("ConcurrentInlining")

\* C20: the compilation mode is fixed and partitioned: code_kind() is the
\* same in every state, exactly one of IsOptimizing(), IsWasm() and
\* IsNotOptimizedFunctionOrWasmFunction() holds, and no step changes the
\* answer of any of the three.
C20_CodeKindFixedAndPartitioned ==
  /\ [][code_kind' = code_kind]_vars
  /\ [](/\ IsOptimizing \/ IsWasm \/ IsNotOptimizedFunctionOrWasmFunction
        /\ ~(IsOptimizing /\ IsWasm)
        /\ ~(IsOptimizing /\ IsNotOptimizedFunctionOrWasmFunction)
        /\ ~(IsWasm /\ IsNotOptimizedFunctionOrWasmFunction))
  /\ [][/\ IsOptimizing' = IsOptimizing
         /\ IsWasm' = IsWasm
         /\ IsNotOptimizedFunctionOrWasmFunction'
              = IsNotOptimizedFunctionOrWasmFunction]_vars

\* A descriptor of a kind that is neither an optimized function nor a wasm
\* function, after a bailout and with a bundle attached.
C20_Witness ==
  /\ IsNotOptimizedFunctionOrWasmFunction
  /\ ~IsOptimizing
  /\ ~IsWasm
  /\ bailout_reason # "kNoReason"
  /\ ph_ # NullBundle

\* C16: in the hand-off protocol the worker dereferences no handle of the
\* descriptor before ReopenHandlesInNewHandleScope has completed on the
\* worker, and the worker calls it exactly once per hand-off: never twice,
\* and never zero times once it compiles.
C16_ReopenOnceBeforeDereference ==
  /\ [][(last'.op = "Dereference" /\ thread = "worker")
          => (handle_scope = "worker" /\ reopens = 1)]_vars
  /\ [](pc = "transferred" => reopens = 0)
  /\ [](pc \in {"compiling", "finished", "returned", "done"} => reopens = 1)
  /\ [](reopens <= 1)

\* The worker dereferenced a handle after its one reopen.
C16_Witness ==
  /\ last.op = "Dereference"
  /\ pc = "compiling"
  /\ thread = "worker"
  /\ handle_scope = "worker"
  /\ reopens = 1
  /\ ~dcheck_failed

\* C17: the success round trip (optimizing job, derived flags, bundle
\* attached, hand-off and reopen on the second thread, two AddInlinedFunction
\* calls, SetCode) ends with code present, bailout_reason() == kNoReason and
\* a list of exactly two holders with the ids 0 and 1 in that order.
C17_RoundTripFinalState ==
  pc = "finished"
    => /\ code # NullCode
       /\ bailout_reason = "kNoReason"
       /\ Len(inlined_functions) = 2
       /\ inlined_functions[1].position.inlined_function_id = 0
       /\ inlined_functions[2].position.inlined_function_id = 1

\* The round trip has ended: an optimizing job on the worker, handles
\* reopened there, bundle attached, code set.
C17_Witness ==
  /\ pc = "finished"
  /\ IsOptimizing
  /\ last.op = "SetCode"
  /\ thread = "worker"
  /\ handle_scope = "worker"
  /\ ph_ # NullBundle
  /\ code = last.arg
  /\ Len(inlined_functions) = 2

====
